---- MODULE Spec2Model ----
(***************************************************************************)
(* Broadcaster: the hub, the socket transport (websocket.go) and the       *)
(* long-poll transport (longpoll.go) as one state machine.                 *)
(*                                                                         *)
(* Every connection task is a small program counter machine whose steps    *)
(* are the blocking points of the Go code: a read from the socket, a send  *)
(* on one of the hub's unbuffered channels (a rendezvous with the hub's    *)
(* loop), the receive on subscription.Done, a write to the socket.         *)
(* The hub's own file is not among the sources; the hub is modelled from   *)
(* the specification (sections 3, 4.1 and 5) and from what its callers in  *)
(* websocket.go and longpoll.go expect of it.                              *)
(***************************************************************************)
EXTENDS Naturals, Sequences, FiniteSets, TLC

\* ------------------------------------------------------------------ bounds
MaxConns == 2
MaxOps == 4

Conns == 1..MaxConns
Channels == {"test", "other"}
AuthTokens == {"abcdefg", "none"}
NoChannel == "-"

\* ------------------------------------------------------- the message model
AuthMessage == "auth"
AuthOKMessage == "authOk"
AuthFailedMessage == "authError"
SubscribeMessage == "subscribe"
SubscribeOKMessage == "subscribeOk"
SubscribeErrorMessage == "subscribeError"
UnsubscribeMessage == "unsubscribe"
UnsubscribeOKMessage == "unsubscribeOk"
MessageMessage == "message"
\* A type no transport recognises (the tests send "bla").
BlaMessage == "bla"
\* Not message types: a websocket close frame, the plain-text body http.Error
\* writes, and what two concurrent writers leave on one socket.
CloseFrame == "close"
HttpErrorBody == "httpError"
GarbledFrame == "garbled"

TypeKey == "type"
LongpollTypeKey == "__type"

VARIABLES
    canConnect,    \* Server.CanConnect: "nil", or the predicate configured
    canSubscribe,  \* Server.CanSubscribe: "nil", or the predicate configured
    transport,     \* per connection: "none", "ws" or "lp"
    pc,            \* per connection: where its server-side task stands
    authData,      \* per connection: the auth message's data (auth / c.AuthData)
    cmdChannel,    \* per connection: subscription.Channel of the command in flight
    connClosed,    \* per socket connection: Conn.Close() has been called
    wire,          \* per connection: what the server has put on the wire, in order
    clients,       \* hub: the live connections
    subs,          \* hub: channel -> connections subscribed
    hubPending,    \* hub: subscribers the running fan-out has still to Send to
    published,     \* the publications the hub accepted, in order (history)
    hubLog,        \* per connection: the commands the hub took from it (history)
    lastCmd,       \* per connection: the last command read from it (history)
    cmds,          \* connects, client events and stops so far (history, for the bound)
                   \* (a client event: a message, a disconnect, a stall)
    closeCalls,    \* per socket connection: the calls of Close(code, msg) (history)
    cmdLog,        \* per connection: the messages read from it, in order (history)
    hubCmd,        \* hub: the Unsubscribe it has taken and not yet applied
    stalled,       \* per socket connection: the peer has stopped reading
    hubStopped     \* Server.Stop has been called: the hub's loop has returned

vars == <<canConnect, canSubscribe, transport, pc, authData, cmdChannel,
          connClosed, wire, clients, subs, hubPending, published, hubLog,
          lastCmd, cmds, closeCalls, cmdLog, hubCmd, stalled, hubStopped>>

\* -------------------------------------------------------------- predicates
\* The servers run: the default one (no predicate set), the tests' refusing
\* ones, and one that admits a token and a channel and refuses the others.
ServerConfigs ==
    {<<"nil", "nil">>, <<"deny", "nil">>, <<"nil", "deny">>, <<"token", "test">>}

\* The configured CanConnect predicate (the tests': token == "abcdefg", or false).
CanConnect(auth) ==
    CASE canConnect = "token" -> auth = "abcdefg"
      [] canConnect = "deny" -> FALSE
      [] OTHER -> TRUE

\* The configured CanSubscribe predicate (the tests': false; or only "test").
CanSubscribe(auth, channel) ==
    CASE canSubscribe = "test" -> channel = "test"
      [] canSubscribe = "deny" -> FALSE
      [] OTHER -> TRUE

\* The connect gate as it would be if the predicate were never consulted.
ConnectRefused_Never(auth) == FALSE

\* c.Server.CanConnect != nil && !c.Server.CanConnect(auth)
ConnectRefused(auth) == canConnect # "nil" /\ ~CanConnect(auth)

\* The subscribe gate as it would be if the predicate were never consulted.
SubscribeRefused_Never(auth, channel) == FALSE

\* c.Server.CanSubscribe != nil && !c.Server.CanSubscribe(auth, channel)
SubscribeRefused(auth, channel) == canSubscribe # "nil" /\ ~CanSubscribe(auth, channel)

\* ------------------------------------------------------------------ frames
\* A clientMessage as it goes out: the key its type is stored under, the type,
\* and the fields the code sets (the others stay empty).
Frame(key, type, channel, body) ==
    [key |-> key, type |-> type, channel |-> channel, body |-> body,
     code |-> <<>>, token |-> 0, status |-> 0]

\* binary.BigEndian.PutUint16(payload, code): the high byte, then the low byte.
PutUint16(code) == <<(code \div 256) % 256, code % 256>>

\* The close frame's payload: the 2-byte code, then the reason.
ClosePayload(code, msg) ==
    [Frame(TypeKey, CloseFrame, NoChannel, msg) EXCEPT !.code = PutUint16(code)]

\* uuid.New(): a token no other connection has.
Token(c) == c

\* A long-poll reply: a one-message JSON array written with HTTP status `status`.
Reply(status, m) == [m EXCEPT !.status = status]

\* Conn.WriteJSON / Conn.WriteMessage: the frame goes out unless the stream has
\* been closed, in which case the write fails and its error is dropped.
WriteJSON(c, frame) ==
    IF connClosed[c] THEN wire[c] ELSE Append(wire[c], frame)

\* Send as it would be with the frame written twice.
websocketSend_Twice(c, channel, message) ==
    IF connClosed[c] THEN wire[c]
    ELSE wire[c] \o << Frame(TypeKey, MessageMessage, channel, message),
                       Frame(TypeKey, MessageMessage, channel, message) >>

\* Send as it would be if a later frame could overtake an earlier one.
websocketSend_Overtaking(c, channel, message) ==
    IF connClosed[c] THEN wire[c]
    ELSE << Frame(TypeKey, MessageMessage, channel, message) >> \o wire[c]

\* Send as it would be with the channel field not taken from its argument.
websocketSend_FixedChannel(c, channel, message) ==
    WriteJSON(c, Frame(TypeKey, MessageMessage, "other", message))

\* websocketConnection.Send
websocketSend(c, channel, message) ==
    WriteJSON(c, Frame(TypeKey, MessageMessage, channel, message))

\* The messages a long-poll connection holds for its client's next poll: the
\* connection has a token, its server and its auth data, and no queue.
longpollOutbox(c) == << >>

\* longpollConnection.Send: an empty body.
longpollSend(c, channel, message) == wire[c]

\* Connection.Send, by the connection's concrete type.
Send(c, channel, message) ==
    IF transport[c] = "ws" THEN websocketSend(c, channel, message)
    ELSE longpollSend(c, channel, message)

\* websocketConnection.Close: the close frame is written, then the stream closed.
CloseWire(c, code, msg) == WriteJSON(c, ClosePayload(code, msg))

\* Conn.WriteJSON sets no write deadline: while the peer of an open socket does
\* not read, the write does not return.
WriteBlocks(c) == transport[c] = "ws" /\ stalled[c] /\ ~connClosed[c]

\* --------------------------------------------------------------------- Init
NoCommand == [type |-> "", channel |-> NoChannel]
\* The hub holds no command it has still to apply.
NoHubCmd == [conn |-> 0, channel |-> NoChannel]

Init ==
    /\ \E cfg \in ServerConfigs : canConnect = cfg[1] /\ canSubscribe = cfg[2]
    /\ transport = [c \in Conns |-> "none"]
    /\ pc = [c \in Conns |-> "idle"]
    /\ authData = [c \in Conns |-> "none"]
    /\ cmdChannel = [c \in Conns |-> NoChannel]
    /\ connClosed = [c \in Conns |-> FALSE]
    /\ wire = [c \in Conns |-> <<>>]
    /\ clients = {}
    /\ subs = [ch \in Channels |-> {}]
    /\ hubPending = {}
    /\ published = <<>>
    /\ hubLog = [c \in Conns |-> <<>>]
    /\ lastCmd = [c \in Conns |-> NoCommand]
    /\ cmds = 0
    /\ closeCalls = [c \in Conns |-> 0]
    /\ cmdLog = [c \in Conns |-> <<>>]
    /\ hubCmd = NoHubCmd
    /\ stalled = [c \in Conns |-> FALSE]
    /\ hubStopped = FALSE

\* The hub's loop is back at its select: no fan-out is running, no command is
\* half done, and the loop has not returned.
HubIdle == hubPending = {} /\ hubCmd = NoHubCmd /\ ~hubStopped

\* The model stops taking connects, client events, stops and publications
\* after MaxOps.
Budget == cmds + Len(published) < MaxOps

\* Connections are taken into use in the order of their numbers.
NextFree(c) == pc[c] = "idle" /\ \A d \in Conns : d < c => pc[d] # "idle"

\* ------------------------------------------------------- socket connection
\* What a client may put on the socket: a read error (the peer is gone), or a
\* message with a type, a channel and auth data.
ReadError == [err |-> TRUE, type |-> "", channel |-> NoChannel, token |-> "none"]
ClientMessage(type, channel, token) ==
    [err |-> FALSE, type |-> type, channel |-> channel, token |-> token]
\* (With no CanConnect configured the auth data decides nothing: one value.)
AuthInputs ==
    {ReadError} \cup {ClientMessage(t, NoChannel, k) : t \in {AuthMessage, BlaMessage},
                      k \in IF canConnect = "nil" THEN {"none"} ELSE AuthTokens}
CommandInputs ==
    {ClientMessage(t, ch, "none") :
        t \in {SubscribeMessage, UnsubscribeMessage}, ch \in Channels}
    \cup {ClientMessage(BlaMessage, NoChannel, "none")}

\* The subscription's channel as it would be if it were not the message's.
subscriptionChannel_Fixed(m) == "other"

\* m["channel"] of a Subscribe or Unsubscribe message, as put in the subscription.
subscriptionChannel(m) == m.channel

\* newWebsocketConnection, handshake: Upgrader.Upgrade succeeds or fails.
websocketUpgrade(c, ok) ==
    /\ NextFree(c) /\ Budget /\ ~hubStopped
    /\ cmds' = cmds + 1
    /\ transport' = [transport EXCEPT ![c] = "ws"]
    /\ IF ok
         THEN /\ pc' = [pc EXCEPT ![c] = "awaitAuth"]
              /\ wire' = wire
         ELSE /\ pc' = [pc EXCEPT ![c] = "badRequest"]
              /\ wire' = [wire EXCEPT ![c] =
                    Append(@, Reply(400, Frame(TypeKey, HttpErrorBody, NoChannel, "upgrade")))]
    /\ UNCHANGED <<closeCalls, cmdLog, hubCmd, stalled, hubStopped,
                   hubLog, lastCmd, canConnect, canSubscribe, authData, cmdChannel, connClosed,
                   clients, subs, hubPending, published>>

\* The handshake as it would be if it went from AuthOK straight to the read
\* loop, without hub.NewClient <- c.
websocketAuth_Unregistered(c, m) ==
    /\ transport[c] = "ws" /\ pc[c] = "awaitAuth"
    /\ ~m.err /\ m.type = AuthMessage /\ ~ConnectRefused(m.token)
    /\ lastCmd' = [lastCmd EXCEPT ![c] = [type |-> m.type, channel |-> m.channel]]
    /\ cmdLog' = [cmdLog EXCEPT ![c] = Append(@, lastCmd'[c])]
    /\ authData' = [authData EXCEPT ![c] = m.token]
    /\ wire' = [wire EXCEPT ![c] =
          WriteJSON(c, Frame(TypeKey, AuthOKMessage, NoChannel, ""))]
    /\ pc' = [pc EXCEPT ![c] = "loop"]
    /\ UNCHANGED <<closeCalls, hubCmd, stalled, hubStopped, connClosed,
                   hubLog, canConnect, canSubscribe, transport, cmdChannel,
                   clients, subs, hubPending, published, cmds>>

\* handshake: the auth packet is read and judged; AuthOK is written before the
\* connection is handed to the hub.
websocketAuth(c, m) ==
    /\ transport[c] = "ws" /\ pc[c] = "awaitAuth"
    /\ lastCmd' = [lastCmd EXCEPT ![c] = [type |-> m.type, channel |-> m.channel]]
    /\ cmdLog' = [cmdLog EXCEPT ![c] = Append(@, lastCmd'[c])]
    /\ authData' = [authData EXCEPT ![c] = m.token]
    /\ IF m.err \/ m.type # AuthMessage
         THEN /\ wire' = [wire EXCEPT ![c] = CloseWire(c, 401, "Auth expected")]
              /\ connClosed' = [connClosed EXCEPT ![c] = TRUE]
              /\ closeCalls' = [closeCalls EXCEPT ![c] = @ + 1]
              /\ pc' = [pc EXCEPT ![c] = "refused"]
         ELSE IF ConnectRefused(m.token)
         THEN /\ wire' = [wire EXCEPT ![c] = CloseWire(c, 401, "Unauthorized")]
              /\ connClosed' = [connClosed EXCEPT ![c] = TRUE]
              /\ closeCalls' = [closeCalls EXCEPT ![c] = @ + 1]
              /\ pc' = [pc EXCEPT ![c] = "refused"]
         ELSE /\ wire' = [wire EXCEPT ![c] =
                    WriteJSON(c, Frame(TypeKey, AuthOKMessage, NoChannel, ""))]
              /\ connClosed' = connClosed
              /\ closeCalls' = closeCalls
              /\ pc' = [pc EXCEPT ![c] = "register"]
    /\ UNCHANGED <<hubCmd, stalled, hubStopped,
                   hubLog, canConnect, canSubscribe, transport, cmdChannel,
                   clients, subs, hubPending, published, cmds>>

\* What the read loop does with a refused Subscribe: Close(403), then continue.
websocketRefuse(c, channel) ==
    /\ wire' = [wire EXCEPT ![c] = CloseWire(c, 403, "Channel refused")]
    /\ connClosed' = [connClosed EXCEPT ![c] = TRUE]
    /\ closeCalls' = [closeCalls EXCEPT ![c] = @ + 1]
    /\ pc' = pc
    /\ cmdChannel' = cmdChannel

\* The read loop as it would be if a read error ended the task with no
\* deferred function to send ClientDisconnect.
websocketRead_NoDefer(c, m) ==
    /\ transport[c] = "ws" /\ pc[c] = "loop" /\ m.err
    /\ wire' = [wire EXCEPT ![c] = CloseWire(c, 400, "read error")]
    /\ connClosed' = [connClosed EXCEPT ![c] = TRUE]
    /\ closeCalls' = [closeCalls EXCEPT ![c] = @ + 1]
    /\ pc' = [pc EXCEPT ![c] = "closed"]
    /\ UNCHANGED <<cmdLog, hubCmd, stalled, hubStopped, lastCmd, cmdChannel, cmds,
                   hubLog, canConnect, canSubscribe, transport, authData,
                   clients, subs, hubPending, published>>

\* handshake, the read loop: one ReadJSON and the switch on the message's type,
\* up to the next blocking point. A closed stream reads as an error; on an
\* open one an error is the client's disconnect.
websocketRead(c, m) ==
    /\ transport[c] = "ws" /\ pc[c] = "loop"
    /\ (connClosed[c] \/ stalled[c]) => m.err
    /\ ~connClosed[c] => Budget
    /\ cmds' = IF connClosed[c] THEN cmds ELSE cmds + 1
    /\ lastCmd' = IF m.err THEN lastCmd
                  ELSE [lastCmd EXCEPT ![c] = [type |-> m.type, channel |-> m.channel]]
    /\ cmdLog' = IF m.err THEN cmdLog ELSE [cmdLog EXCEPT ![c] = Append(@, lastCmd'[c])]
    /\ IF m.err
         THEN \* Close(400, err); break; the deferred function runs next.
              /\ wire' = [wire EXCEPT ![c] = CloseWire(c, 400, "read error")]
              /\ connClosed' = [connClosed EXCEPT ![c] = TRUE]
              /\ closeCalls' = [closeCalls EXCEPT ![c] = @ + 1]
              /\ pc' = [pc EXCEPT ![c] = "disconnect"]
              /\ cmdChannel' = cmdChannel
         ELSE IF m.type = SubscribeMessage
         THEN IF SubscribeRefused(authData[c], m.channel)
                THEN websocketRefuse(c, m.channel)
                ELSE /\ pc' = [pc EXCEPT ![c] = "subscribe"]
                     /\ cmdChannel' = [cmdChannel EXCEPT ![c] = subscriptionChannel(m)]
                     /\ UNCHANGED <<wire, connClosed, closeCalls>>
         ELSE IF m.type = UnsubscribeMessage
         THEN /\ pc' = [pc EXCEPT ![c] = "unsubscribe"]
              /\ cmdChannel' = [cmdChannel EXCEPT ![c] = subscriptionChannel(m)]
              /\ UNCHANGED <<wire, connClosed, closeCalls>>
         ELSE \* default: Close(400); the break leaves the switch, not the loop.
              /\ wire' = [wire EXCEPT ![c] = CloseWire(c, 400, "Unexpected message")]
              /\ connClosed' = [connClosed EXCEPT ![c] = TRUE]
              /\ closeCalls' = [closeCalls EXCEPT ![c] = @ + 1]
              /\ UNCHANGED <<pc, cmdChannel>>
    /\ UNCHANGED <<hubCmd, stalled, hubStopped,
                   hubLog, canConnect, canSubscribe, transport, authData,
                   clients, subs, hubPending, published>>

\* The error the hub answers a Subscribe with on Done: nil.
SubscribeDone(c, channel) == ""

\* handshake, after <-s.Done: SubscribeError or SubscribeOK is written.
websocketSubscribeReply(c) ==
    /\ transport[c] = "ws" /\ pc[c] = "subDone"
    /\ LET err == SubscribeDone(c, cmdChannel[c]) IN
       wire' = [wire EXCEPT ![c] =
          IF err # ""
            THEN WriteJSON(c, Frame(TypeKey, SubscribeErrorMessage, cmdChannel[c], err))
            ELSE WriteJSON(c, Frame(TypeKey, SubscribeOKMessage, cmdChannel[c], ""))]
    /\ pc' = [pc EXCEPT ![c] = "loop"]
    /\ cmdChannel' = [cmdChannel EXCEPT ![c] = NoChannel]
    /\ UNCHANGED <<closeCalls, cmdLog, hubCmd, stalled, hubStopped,
                   hubLog, lastCmd, canConnect, canSubscribe, transport, authData, connClosed,
                   clients, subs, hubPending, published, cmds>>

\* handshake, after hub.Unsubscribe <- s: UnsubscribeOK is written (Done is not read).
websocketUnsubscribeReply(c) ==
    /\ transport[c] = "ws" /\ pc[c] = "unsubAck"
    /\ wire' = [wire EXCEPT ![c] =
          WriteJSON(c, Frame(TypeKey, UnsubscribeOKMessage, cmdChannel[c], ""))]
    /\ pc' = [pc EXCEPT ![c] = "loop"]
    /\ cmdChannel' = [cmdChannel EXCEPT ![c] = NoChannel]
    /\ UNCHANGED <<closeCalls, cmdLog, hubCmd, stalled, hubStopped,
                   hubLog, lastCmd, canConnect, canSubscribe, transport, authData, connClosed,
                   clients, subs, hubPending, published, cmds>>

\* ---------------------------------------------------- long-poll connection
\* The AuthOK reply of a long-poll handshake, carrying the connection's token.
longpollAuthOK(c) ==
    Reply(200, [Frame(LongpollTypeKey, AuthOKMessage, NoChannel, "") EXCEPT !.token = Token(c)])

\* newLongpollConnection, handshake: the first POST of a client. A failure is
\* answered 401 and returns an error. On success AuthOK is encoded into the
\* response, AuthData is kept and the connection is handed to the hub; the
\* response leaves when the handler returns (see hubNewClient).
longpollHandshake(c, m) ==
    /\ NextFree(c) /\ ~m.err /\ Budget /\ ~hubStopped
    /\ cmds' = cmds + 1
    /\ lastCmd' = [lastCmd EXCEPT ![c] = [type |-> m.type, channel |-> m.channel]]
    /\ cmdLog' = [cmdLog EXCEPT ![c] = Append(@, lastCmd'[c])]
    /\ transport' = [transport EXCEPT ![c] = "lp"]
    /\ IF m.type # AuthMessage
         THEN /\ wire' = [wire EXCEPT ![c] = Append(@, Reply(401,
                    Frame(LongpollTypeKey, AuthFailedMessage, NoChannel, "Auth expected")))]
              /\ pc' = [pc EXCEPT ![c] = "refused"]
              /\ authData' = authData
         ELSE IF ConnectRefused(m.token)
         THEN /\ wire' = [wire EXCEPT ![c] = Append(@, Reply(401,
                    Frame(LongpollTypeKey, AuthFailedMessage, NoChannel, "Unauthorized")))]
              /\ pc' = [pc EXCEPT ![c] = "refused"]
              /\ authData' = authData
         ELSE /\ wire' = wire
              /\ pc' = [pc EXCEPT ![c] = "register"]
              /\ authData' = [authData EXCEPT ![c] = m.token]
    /\ UNCHANGED <<closeCalls, hubCmd, stalled, hubStopped,
                   hubLog, canConnect, canSubscribe, cmdChannel, connClosed,
                   clients, subs, hubPending, published>>

\* longpollConnection.Handle: a later POST carrying the token, dispatched on
\* its type. Only Subscribe has a case; everything else is answered 400.
longpollHandle(c, m) ==
    /\ transport[c] = "lp" /\ pc[c] = "ready"
    /\ ~m.err /\ Budget /\ ~hubStopped
    /\ cmds' = cmds + 1
    /\ lastCmd' = [lastCmd EXCEPT ![c] = [type |-> m.type, channel |-> m.channel]]
    /\ cmdLog' = [cmdLog EXCEPT ![c] = Append(@, lastCmd'[c])]
    /\ IF m.type = SubscribeMessage
         THEN IF SubscribeRefused(authData[c], m.channel)
                THEN /\ wire' = [wire EXCEPT ![c] = Append(@, Reply(200,
                           Frame(LongpollTypeKey, SubscribeErrorMessage, m.channel,
                                 "Channel refused")))]
                     /\ UNCHANGED <<pc, cmdChannel>>
                ELSE /\ pc' = [pc EXCEPT ![c] = "subscribe"]
                     /\ cmdChannel' = [cmdChannel EXCEPT ![c] = subscriptionChannel(m)]
                     /\ wire' = wire
         ELSE /\ wire' = [wire EXCEPT ![c] = Append(@, Reply(400,
                    Frame(LongpollTypeKey, HttpErrorBody, NoChannel, "Unexpected message")))]
              /\ UNCHANGED <<pc, cmdChannel>>
    /\ UNCHANGED <<closeCalls, hubCmd, stalled, hubStopped,
                   hubLog, canConnect, canSubscribe, transport, authData, connClosed,
                   clients, subs, hubPending, published>>

\* Handle, after <-s.Done: the reply is written and the handler returns.
longpollSubscribeReply(c) ==
    /\ transport[c] = "lp" /\ pc[c] = "subDone"
    /\ LET err == SubscribeDone(c, cmdChannel[c]) IN
       wire' = [wire EXCEPT ![c] = Append(@, Reply(200,
          IF err # ""
            THEN Frame(LongpollTypeKey, SubscribeErrorMessage, cmdChannel[c], err)
            ELSE Frame(LongpollTypeKey, SubscribeOKMessage, cmdChannel[c], "")))]
    /\ pc' = [pc EXCEPT ![c] = "ready"]
    /\ cmdChannel' = [cmdChannel EXCEPT ![c] = NoChannel]
    /\ UNCHANGED <<closeCalls, cmdLog, hubCmd, stalled, hubStopped,
                   hubLog, lastCmd, canConnect, canSubscribe, transport, authData, connClosed,
                   clients, subs, hubPending, published, cmds>>

\* longpollClientTransport.Close: the client closes its own message channel;
\* nothing is sent to the server.
longpollClientClose(c) ==
    /\ transport[c] = "lp" /\ pc[c] = "ready" /\ Budget
    /\ pc' = [pc EXCEPT ![c] = "gone"]
    /\ cmds' = cmds + 1
    /\ UNCHANGED <<closeCalls, cmdLog, hubCmd, stalled, hubStopped,
                   hubLog, lastCmd, canConnect, canSubscribe, transport, authData, cmdChannel,
                   connClosed, wire, clients, subs, hubPending, published>>

\* ---------------------------------------------------------------------- hub
\* A command as the hub takes it off one of its channels.
Command(name, channel) == [cmd |-> name, channel |-> channel]

\* hub.NewClient <- c: the hub adds the connection to the live set. The socket
\* task goes on to its read loop; the long-poll handler returns, which sends
\* the response it wrote.
hubNewClient(c) ==
    /\ HubIdle /\ pc[c] = "register"
    /\ clients' = clients \cup {c}
    /\ IF transport[c] = "ws"
         THEN /\ pc' = [pc EXCEPT ![c] = "loop"]
              /\ wire' = wire
         ELSE /\ pc' = [pc EXCEPT ![c] = "ready"]
              /\ wire' = [wire EXCEPT ![c] = Append(@, longpollAuthOK(c))]
    /\ hubLog' = [hubLog EXCEPT ![c] = Append(@, Command("NewClient", NoChannel))]
    /\ UNCHANGED <<closeCalls, cmdLog, hubCmd, stalled, hubStopped,
                   lastCmd, canConnect, canSubscribe, transport, authData, cmdChannel,
                   connClosed, subs, hubPending, published, cmds>>

\* hub.ClientDisconnect <- c (the socket task's deferred function): the hub
\* drops the connection and all its subscriptions.
hubClientDisconnect(c) ==
    /\ HubIdle /\ pc[c] = "disconnect"
    /\ clients' = clients \ {c}
    /\ subs' = [ch \in Channels |-> subs[ch] \ {c}]
    /\ pc' = [pc EXCEPT ![c] = "closed"]
    /\ hubLog' = [hubLog EXCEPT ![c] = Append(@, Command("ClientDisconnect", NoChannel))]
    /\ UNCHANGED <<closeCalls, cmdLog, hubCmd, stalled, hubStopped,
                   lastCmd, canConnect, canSubscribe, transport, authData, cmdChannel,
                   connClosed, wire, hubPending, published, cmds>>

\* hub.Subscribe <- s: the hub adds the subscription and answers on s.Done.
hubSubscribe(c) ==
    /\ HubIdle /\ pc[c] = "subscribe"
    /\ subs' = [subs EXCEPT ![cmdChannel[c]] = @ \cup {c}]
    /\ pc' = [pc EXCEPT ![c] = "subDone"]
    /\ hubLog' = [hubLog EXCEPT ![c] = Append(@, Command("Subscribe", cmdChannel[c]))]
    /\ UNCHANGED <<closeCalls, cmdLog, hubCmd, stalled, hubStopped,
                   lastCmd, canConnect, canSubscribe, transport, authData, cmdChannel,
                   connClosed, wire, clients, hubPending, published, cmds>>

\* hub.Unsubscribe <- s: the hub's loop takes the subscription off the channel.
\* The sender is not made to wait for an answer (it never reads s.Done): from
\* here it runs on beside the hub, which has still to remove the subscription.
\* (After the other commands the sender waits for Done or for its next read,
\* so there the hub's taking and applying a command is one step.)
hubUnsubscribe(c) ==
    /\ HubIdle /\ pc[c] = "unsubscribe"
    /\ hubCmd' = [conn |-> c, channel |-> cmdChannel[c]]
    /\ pc' = [pc EXCEPT ![c] = "unsubAck"]
    /\ hubLog' = [hubLog EXCEPT ![c] = Append(@, Command("Unsubscribe", cmdChannel[c]))]
    /\ UNCHANGED <<closeCalls, cmdLog, stalled, hubStopped,
                   lastCmd, canConnect, canSubscribe, transport, authData, cmdChannel,
                   connClosed, wire, clients, subs, hubPending, published, cmds>>

\* The hub removes the subscription it took, if there is one, and is back at
\* its select.
hubUnsubscribeApply ==
    /\ hubCmd # NoHubCmd
    /\ subs' = [subs EXCEPT ![hubCmd.channel] = @ \ {hubCmd.conn}]
    /\ hubCmd' = NoHubCmd
    /\ UNCHANGED <<closeCalls, cmdLog, stalled, hubStopped, hubLog,
                   lastCmd, canConnect, canSubscribe, transport, pc, authData, cmdChannel,
                   connClosed, wire, clients, hubPending, published, cmds>>

\* The body of the n-th publication: the tests' bodies, each published once.
BodyOf(n) ==
    CASE n = 1 -> "Test message"
      [] n = 2 -> "Test message 2"
      [] n = 3 -> "Test message 3"
      [] OTHER -> "Test message 4"

\* Server.sendMessage -> Publish: the hub accepts a publication and resolves
\* the channel's subscribers; the fan-out then Sends to each of them.
hubPublish(channel, body) ==
    /\ HubIdle /\ Budget
    /\ published' = Append(published,
          [channel |-> channel, body |-> body, subs |-> subs[channel]])
    /\ hubPending' = subs[channel]
    /\ UNCHANGED <<closeCalls, cmdLog, hubCmd, stalled, hubStopped,
                   hubLog, lastCmd, canConnect, canSubscribe, transport, pc, authData, cmdChannel,
                   connClosed, wire, clients, subs, cmds>>

\* The publication whose fan-out is running.
Current == published[Len(published)]

\* One step of the fan-out: Send on one of the subscribers still to serve.
hubSend(c) ==
    /\ c \in hubPending /\ ~WriteBlocks(c)
    /\ wire' = [wire EXCEPT ![c] = Send(c, Current.channel, Current.body)]
    /\ hubPending' = hubPending \ {c}
    /\ UNCHANGED <<closeCalls, cmdLog, hubCmd, stalled, hubStopped,
                   hubLog, lastCmd, canConnect, canSubscribe, transport, pc, authData, cmdChannel,
                   connClosed, clients, subs, published, cmds>>

\* The fan-out's Send and the socket task's own reply are written to one
\* Conn at the same time by two goroutines, with nothing to order them: the
\* two frames may also go out whole in either order (hubSend and the reply
\* step, one after the other), or, as here, reach the peer as neither.
racingWrites(c) ==
    /\ c \in hubPending /\ transport[c] = "ws" /\ ~WriteBlocks(c)
    /\ pc[c] \in {"subDone", "unsubAck"}
    /\ wire' = [wire EXCEPT ![c] =
          WriteJSON(c, Frame(TypeKey, GarbledFrame, NoChannel, ""))]
    /\ hubPending' = hubPending \ {c}
    /\ pc' = [pc EXCEPT ![c] = "loop"]
    /\ cmdChannel' = [cmdChannel EXCEPT ![c] = NoChannel]
    /\ UNCHANGED <<closeCalls, cmdLog, hubCmd, stalled, hubStopped,
                   hubLog, lastCmd, canConnect, canSubscribe, transport, authData, connClosed,
                   clients, subs, published, cmds>>

\* The peer of a subscribed socket connection stops reading (and sending):
\* the socket's buffers fill up.
peerStalls(c) ==
    /\ transport[c] = "ws" /\ pc[c] = "loop"
    /\ ~connClosed[c] /\ ~stalled[c] /\ ~hubStopped
    /\ \E ch \in Channels : c \in subs[ch]
    /\ Budget
    /\ cmds' = cmds + 1
    /\ stalled' = [stalled EXCEPT ![c] = TRUE]
    /\ UNCHANGED <<closeCalls, cmdLog, hubCmd, hubStopped, hubLog,
                   lastCmd, canConnect, canSubscribe, transport, pc, authData, cmdChannel,
                   connClosed, wire, clients, subs, hubPending, published>>

\* Where a task stands while it sends on one of the hub's channels.
HubSendPoints == {"register", "subscribe", "unsubscribe", "disconnect"}

\* Server.Stop: the hub's loop, back at its select with the commands offered
\* to it drained, closes every live connection and returns. Nothing receives
\* on the hub's channels any more (and nobody reads its tables).
serverStop ==
    /\ HubIdle /\ Budget
    /\ \A c \in Conns : pc[c] \notin HubSendPoints
    /\ cmds' = cmds + 1
    /\ hubStopped' = TRUE
    /\ connClosed' = [c \in Conns |->
                        connClosed[c] \/ (transport[c] = "ws" /\ c \in clients)]
    /\ UNCHANGED <<closeCalls, cmdLog, hubCmd, stalled, hubLog,
                   lastCmd, canConnect, canSubscribe, transport, pc, authData, cmdChannel,
                   wire, clients, subs, hubPending, published>>

\* A send on a channel of the stopped hub. While the channel is open nobody
\* receives and the send blocks (no step); if Stop closed the channel the send
\* panics, as does the deferred send of ClientDisconnect, and the task ends
\* without its conn.Close().
sendPanics(c) ==
    /\ hubStopped /\ pc[c] \in HubSendPoints
    /\ pc' = [pc EXCEPT ![c] = "panicked"]
    /\ UNCHANGED <<closeCalls, cmdLog, hubCmd, stalled, hubStopped, hubLog,
                   lastCmd, canConnect, canSubscribe, transport, authData, cmdChannel,
                   connClosed, wire, clients, subs, hubPending, published, cmds>>

\* The client has been told its connect succeeded and has not gone since.
Connected(c) ==
    /\ \E i \in 1..Len(wire[c]) : wire[c][i].type = AuthOKMessage
    /\ pc[c] \in {"register", "loop", "ready", "subscribe", "subDone",
                  "unsubscribe", "unsubAck"}
    /\ ~connClosed[c]

\* Stats: the snapshot the hub answers a Stats command with. The hub answers
\* between two commands, so the snapshot is what a query gets in a HubIdle state.
Stats ==
    [Connections |-> Cardinality(clients),
     LocalSubscriptions |-> [ch \in Channels |-> Cardinality(subs[ch])]]

\* --------------------------------------------------------------------- Next
Next ==
    \/ \E c \in Conns, ok \in BOOLEAN : websocketUpgrade(c, ok)
    \/ \E c \in Conns, m \in AuthInputs : websocketAuth(c, m)
    \/ \E c \in Conns, m \in CommandInputs \cup {ReadError} : websocketRead(c, m)
    \/ \E c \in Conns : websocketSubscribeReply(c)
    \/ \E c \in Conns : websocketUnsubscribeReply(c)
    \/ \E c \in Conns, m \in AuthInputs : longpollHandshake(c, m)
    \/ \E c \in Conns, m \in CommandInputs : longpollHandle(c, m)
    \/ \E c \in Conns : longpollSubscribeReply(c)
    \/ \E c \in Conns : longpollClientClose(c)
    \/ \E c \in Conns : hubNewClient(c)
    \/ \E c \in Conns : hubClientDisconnect(c)
    \/ \E c \in Conns : hubSubscribe(c)
    \/ \E c \in Conns : hubUnsubscribe(c)
    \/ hubUnsubscribeApply
    \/ \E c \in Conns : peerStalls(c)
    \/ serverStop
    \/ \E c \in Conns : sendPanics(c)
    \/ \E ch \in Channels : hubPublish(ch, BodyOf(Len(published) + 1))
    \/ \E c \in Conns : hubSend(c)
    \/ \E c \in Conns : racingWrites(c)

Spec == Init /\ [][Next]_vars

\* The steps that need nothing from a client: the hub's loop takes the command
\* that is offered to it and carries its fan-out on, a task that holds the
\* hub's answer writes its reply, and a read on a closed stream returns its
\* error at once.
Progress(c) ==
    \/ hubNewClient(c) \/ hubClientDisconnect(c)
    \/ hubSubscribe(c) \/ hubUnsubscribe(c) \/ hubUnsubscribeApply
    \/ hubSend(c)
    \/ websocketSubscribeReply(c) \/ websocketUnsubscribeReply(c)
    \/ longpollSubscribeReply(c)
    \/ connClosed[c] /\ websocketRead(c, ReadError)

\* The scheduler is fair to every goroutine that can run.
FairSpec == Spec /\ \A c \in Conns : WF_vars(Progress(c))

\* ================================================================== claims
\* A MessageMessage {type, channel, body} frame of the socket transport.
IsMessage(f, channel, body) ==
    /\ f.key = TypeKey /\ f.type = MessageMessage
    /\ f.channel = channel /\ f.body = body

\* Where on c's wire the message of publication p stands.
MessagePositions(c, p) ==
    {i \in 1..Len(wire[c]) : IsMessage(wire[c][i], p.channel, p.body)}

\* The fan-out of the i-th publication has called Send on c.
SendDone(i, c) ==
    /\ c \in published[i].subs
    /\ ~(i = Len(published) /\ c \in hubPending)

\* Two goroutines wrote to c's socket at once at some point.
Raced(c) == \E i \in 1..Len(wire[c]) : wire[c][i].type = GarbledFrame

\* A socket connection whose stream is open and had one writer at a time.
SoundSocket(c) == transport[c] = "ws" /\ ~connClosed[c] /\ ~Raced(c)

\* C1: every publication is sent exactly once, as a MessageMessage with its
\* channel and body, to every socket connection that was subscribed to the
\* channel when the hub accepted it: once the fan-out has called Send on the
\* connection its wire holds one such frame, before that none, and never two.
\* (The connection's stream is open and no write of its own task ran at the
\* same time as the Send: the interleaving is with other connections' commands.)
C1_ExactlyOnce ==
    \A i \in 1..Len(published) : \A c \in Conns :
        SoundSocket(c) =>
            Cardinality(MessagePositions(c, published[i])) =
                IF SendDone(i, c) THEN 1 ELSE 0

\* C1 witness: a socket subscriber has its message, and the hub has also taken
\* a command from another connection.
C1_Witness ==
    \E i \in 1..Len(published) : \E c, d \in Conns :
        /\ c # d /\ SoundSocket(c) /\ SendDone(i, c)
        /\ Cardinality(MessagePositions(c, published[i])) = 1
        /\ hubLog[d] # << >>

\* C2: two publications to one channel reach a connection in the order the hub
\* accepted them: a socket connection subscribed at both has the first one's
\* message before the second one's, and on no connection does a later
\* publication's message stand before an earlier one's.
C2_InOrder ==
    \A i, j \in 1..Len(published) : \A c \in Conns :
        (i < j /\ published[i].channel = published[j].channel) =>
            /\ \A a \in MessagePositions(c, published[i]) :
                 \A b \in MessagePositions(c, published[j]) : a < b
            /\ (SoundSocket(c) /\ SendDone(i, c) /\ SendDone(j, c)) =>
                 \E a \in MessagePositions(c, published[i]) :
                   \E b \in MessagePositions(c, published[j]) : a < b

\* C2 witness: a socket connection holds two messages of one channel.
C2_Witness ==
    \E i, j \in 1..Len(published) : \E c \in Conns :
        /\ i < j /\ published[i].channel = published[j].channel
        /\ SoundSocket(c)
        /\ MessagePositions(c, published[i]) # {}
        /\ MessagePositions(c, published[j]) # {}

\* C3: a MessageMessage on a connection's wire is the message of a publication
\* to a channel the connection was subscribed to when the hub accepted it; a
\* publication to a channel the connection was not subscribed to leaves
\* nothing on its wire.
C3_OnlySubscribed ==
    \A c \in Conns :
        /\ \A k \in 1..Len(wire[c]) :
             wire[c][k].type = MessageMessage =>
                \E i \in 1..Len(published) :
                    /\ IsMessage(wire[c][k], published[i].channel, published[i].body)
                    /\ c \in published[i].subs
        /\ \A i \in 1..Len(published) :
             c \notin published[i].subs => MessagePositions(c, published[i]) = {}

\* C3 witness: a connection subscribed to "test" only, after publications to
\* "other" and to "test", holds the message of "test".
C3_Witness ==
    \E c \in Conns :
        /\ c \in subs["test"] /\ c \notin subs["other"]
        /\ Len(published) = 2 /\ HubIdle
        /\ published[1].channel = "other" /\ published[2].channel = "test"
        /\ c \notin published[1].subs
        /\ MessagePositions(c, published[2]) # {}

\* A MessageMessage as a long-poll response carries it.
IsLongpollMessage(f, channel, body) ==
    /\ f.key = LongpollTypeKey /\ f.type = MessageMessage
    /\ f.channel = channel /\ f.body = body

\* C4: what Send is called with on a long-poll connection is kept for the
\* client: once the fan-out of a publication has called Send on a subscribed
\* long-poll connection, its MessageMessage is pending in the connection's
\* outbox or has gone out in a response.
C4_LongpollKeepsMessage ==
    \A i \in 1..Len(published) : \A c \in Conns :
        (transport[c] = "lp" /\ SendDone(i, c)) =>
            \/ \E k \in 1..Len(longpollOutbox(c)) :
                 IsLongpollMessage(longpollOutbox(c)[k],
                                   published[i].channel, published[i].body)
            \/ \E k \in 1..Len(wire[c]) :
                 IsLongpollMessage(wire[c][k],
                                   published[i].channel, published[i].body)

\* The answer a failed handshake gets: on the socket a close frame with code
\* 401 (the bytes 1, 145) and the reason, on long-poll AuthFailedMessage with
\* the reason under HTTP status 401.
IsAuthFailure(c, f, reason) ==
    /\ f.body = reason
    /\ IF transport[c] = "ws"
         THEN f.type = CloseFrame /\ f.code = <<1, 145>>
         ELSE f.key = LongpollTypeKey /\ f.type = AuthFailedMessage /\ f.status = 401

\* C5: a connection whose handshake failed got the auth failure that fits its
\* first message ("Auth expected" when it was no AuthMessage, "Unauthorized"
\* when CanConnect refused it) and nothing else, the hub took no command from
\* it and holds it in no table; every connection the hub took a command from
\* was answered AuthOK first and passed CanConnect; and with no connection past
\* its handshake Stats counts 0.
C5_FailedHandshakeNotRegistered ==
    /\ \A c \in Conns :
         /\ pc[c] = "refused" =>
              /\ hubLog[c] = << >>
              /\ c \notin clients
              /\ \A ch \in Channels : c \notin subs[ch]
              /\ Len(wire[c]) = 1
              /\ IsAuthFailure(c, wire[c][1],
                    IF lastCmd[c].type = AuthMessage THEN "Unauthorized"
                    ELSE "Auth expected")
         /\ (c \in clients \/ hubLog[c] # << >>) =>
              /\ wire[c] # << >> /\ wire[c][1].type = AuthOKMessage
              /\ canConnect = "nil" \/ CanConnect(authData[c])
    /\ (\A c \in Conns : pc[c] \in {"idle", "awaitAuth", "refused", "badRequest"})
          => Stats.Connections = 0

\* C5 witness: a socket and a long-poll connection have both been refused.
C5_Witness ==
    \E c, d \in Conns :
        /\ transport[c] = "ws" /\ pc[c] = "refused"
        /\ transport[d] = "lp" /\ pc[d] = "refused"
        /\ wire[c][1].body # wire[d][1].body

\* C6: a Stats query made once a client has read AuthOK counts the client:
\* whenever the hub answers, every connection whose client has been told the
\* connect succeeded (and has not gone) is in the count.
C6_ConnectedIsCounted ==
    HubIdle =>
        /\ \A c \in Conns : Connected(c) => c \in clients
        /\ Stats.Connections >= Cardinality({c \in Conns : Connected(c)})

\* The handshake of c succeeded; c has disconnected since.
Handshaken(c) == pc[c] \notin {"idle", "awaitAuth", "refused", "badRequest"}
Disconnected(c) == pc[c] \in {"disconnect", "closed", "gone"}

\* No hub command is in flight and no fan-out is running.
Quiescent ==
    /\ HubIdle
    /\ \A c \in Conns : pc[c] \notin {"register", "subscribe", "unsubscribe", "disconnect"}

\* C7: in a quiescent state Stats().Connections is the number of successful
\* handshakes less the number of disconnects.
C7_ConnectionsCount ==
    Quiescent =>
        Stats.Connections =
            Cardinality({c \in Conns : Handshaken(c)})
              - Cardinality({c \in Conns : Handshaken(c) /\ Disconnected(c)})

\* The answer a refused Subscribe gets: on the socket a close frame with code
\* 403 (the bytes 1, 147), on long-poll a SubscribeErrorMessage; the reason is
\* "Channel refused".
IsRefusal(f) ==
    /\ f.body = "Channel refused"
    /\ \/ f.type = CloseFrame /\ f.code = <<1, 147>>
       \/ f.key = LongpollTypeKey /\ f.type = SubscribeErrorMessage

\* This step is connection c's task reading a command.
ReadsCommand(c) ==
    /\ cmdLog'[c] # cmdLog[c]
    /\ pc[c] \in {"loop", "ready"}

\* The step in which c's Subscribe, which CanSubscribe refuses, is read.
ReadsRefusedSubscribe(c) ==
    /\ ReadsCommand(c)
    /\ lastCmd'[c].type = SubscribeMessage
    /\ canSubscribe # "nil"
    /\ ~CanSubscribe(authData[c], lastCmd'[c].channel)

\* C8: a Subscribe that CanSubscribe refuses changes nothing in the hub: in
\* the step that handles it no command goes to the hub, the live set and every
\* channel's subscribers stay as they were, and the client is told "Channel
\* refused"; on both transports.
C8_RefusedBeforeMutation ==
    [][\A c \in Conns :
          ReadsRefusedSubscribe(c) =>
             /\ pc'[c] = pc[c]
             /\ hubLog' = hubLog
             /\ clients' = clients
             /\ subs' = subs
             /\ Stats' = Stats
             /\ Len(wire'[c]) = Len(wire[c]) + 1
             /\ IsRefusal(wire'[c][Len(wire'[c])])]_vars

\* The client of c has been told "Channel refused".
ToldRefusal(c) == \E k \in 1..Len(wire[c]) : IsRefusal(wire[c][k])

\* C8 witness: a socket and a long-poll connection have both been refused a
\* channel, and the hub holds no subscription.
C8_Witness ==
    \E c, d \in Conns :
        /\ transport[c] = "ws" /\ ToldRefusal(c)
        /\ transport[d] = "lp" /\ ToldRefusal(d)
        /\ \A ch \in Channels : subs[ch] = {}

\* C9: a refused Subscribe does not end the connection: a connection that was
\* told "Channel refused", and whose task has not met a read error since, has
\* its stream open and is in the hub's live set.
C9_RefusalNotTerminal ==
    \A c \in Conns :
        (ToldRefusal(c) /\ ~Disconnected(c)) =>
            /\ ~connClosed[c]
            /\ c \in clients

\* The last frame on c's wire that is no publication's message.
LastReply(c) ==
    LET P == {k \in 1..Len(wire[c]) : wire[c][k].type # MessageMessage}
    IN  wire[c][CHOOSE k \in P : \A j \in P : j <= k]

\* c has been answered SubscribeOK for the channel.
ToldSubscribed(c, channel) ==
    \E k \in 1..Len(wire[c]) :
        wire[c][k].type = SubscribeOKMessage /\ wire[c][k].channel = channel

\* C10: an Unsubscribe of a channel the connection subscribed to is answered
\* with UnsubscribeOK, leaves the connection out of the channel's subscribers
\* and leaves it in the live set: once the task is back at reading and the hub
\* at its select (the stream open, no racing write), on either transport.
C10_UnsubscribeClears ==
    \A c \in Conns :
        ( /\ pc[c] \in {"loop", "ready"} /\ HubIdle
          /\ lastCmd[c].type = UnsubscribeMessage
          /\ ToldSubscribed(c, lastCmd[c].channel)
          /\ ~connClosed[c] /\ ~Raced(c) ) =>
            /\ LastReply(c).type = UnsubscribeOKMessage
            /\ LastReply(c).channel = lastCmd[c].channel
            /\ c \notin subs[lastCmd[c].channel]
            /\ c \in clients

\* The hub holds nothing of c: c is not live and subscribes to no channel.
Unregistered(c) == c \notin clients /\ \A ch \in Channels : c \notin subs[ch]

\* c is registered and has disconnected: its task met a read error, its
\* client closed its transport, or the server closed its stream.
RegisteredAndGone(c) == c \in clients /\ (Disconnected(c) \/ connClosed[c])

\* The hub takes no command: it has stopped, or its fan-out waits on a socket
\* whose peer does not read.
HubHalted == hubStopped \/ \E d \in hubPending : WriteBlocks(d)

\* C11: a registered connection that disconnects is unregistered in the end:
\* ClientDisconnect reaches the hub and the connection counts in no
\* LocalSubscriptions any more, given that the hub keeps taking commands.
C11_DisconnectUnregisters ==
    \A c \in Conns :
        RegisteredAndGone(c) ~>
            \/ /\ Unregistered(c)
               /\ \E k \in 1..Len(hubLog[c]) : hubLog[c][k].cmd = "ClientDisconnect"
            \/ HubHalted

\* The number of times the hub holds the pair (c, channel).
Held(c, channel) == Cardinality({d \in subs[channel] : d = c})

\* The number of times the pair is held after the hub has applied the commands
\* of log: Subscribe leaves one (a pair appears at most once), Unsubscribe and
\* ClientDisconnect leave none.
RECURSIVE HeldAfter(_, _)
HeldAfter(log, channel) ==
    IF log = << >> THEN 0
    ELSE LET last == log[Len(log)]
         IN  CASE last.cmd = "Subscribe" /\ last.channel = channel -> 1
               [] last.cmd = "Unsubscribe" /\ last.channel = channel -> 0
               [] last.cmd = "ClientDisconnect" -> 0
               [] OTHER -> HeldAfter(SubSeq(log, 1, Len(log) - 1), channel)

\* What the messages read from a connection ask for, for one channel: 1 when
\* the last of them that names the channel is a Subscribe, 0 otherwise.
RECURSIVE AskedFor(_, _)
AskedFor(log, channel) ==
    IF log = << >> THEN 0
    ELSE LET last == log[Len(log)]
         IN  CASE last.type = SubscribeMessage /\ last.channel = channel -> 1
               [] last.type = UnsubscribeMessage /\ last.channel = channel -> 0
               [] OTHER -> AskedFor(SubSeq(log, 1, Len(log) - 1), channel)

\* The task of c has answered every message it read.
AtRest(c) == pc[c] \in {"loop", "ready"}

IsReply(f) == f.type # MessageMessage

\* The kind of a reply: which of the protocol's answers it is and for which
\* channel; a close frame and an HTTP error are both "refused".
ReplyKind(f) ==
    IF f.type \in {AuthOKMessage, SubscribeOKMessage, SubscribeErrorMessage,
                   UnsubscribeOKMessage}
      THEN <<f.type, f.channel>>
      ELSE <<"refused", NoChannel>>

\* The kinds of the replies c has been sent, in order.
ReplyKinds(c) ==
    LET replies == SelectSeq(wire[c], IsReply)
    IN  [k \in 1..Len(replies) |-> ReplyKind(replies[k])]

\* The channels the hub holds c subscribed to.
Subscriptions(c) == {ch \in Channels : c \in subs[ch]}

\* C13: the two transports implement one protocol: a socket connection and a
\* long-poll connection that sent the same auth data and the same sequence of
\* messages, and have been answered, got the same kinds of replies and are
\* subscribed to the same channels.
C13_TransportsAgree ==
    \A c, d \in Conns :
        ( /\ transport[c] = "ws" /\ transport[d] = "lp"
          /\ AtRest(c) /\ AtRest(d) /\ hubCmd = NoHubCmd
          /\ ~Raced(c)
          /\ authData[c] = authData[d]
          /\ cmdLog[c] = cmdLog[d] ) =>
            /\ ReplyKinds(c) = ReplyKinds(d)
            /\ Subscriptions(c) = Subscriptions(d)

\* The commands of c the hub took before the k-th.
Before(c, k) == {hubLog[c][i].cmd : i \in 1..(k - 1)}

\* C14: every connection in some channel's subscribers is in the live set,
\* and the hub takes a Subscribe of a connection only after its NewClient and
\* before its ClientDisconnect.
C14_SubscribersAreLive ==
    /\ \A ch \in Channels : subs[ch] \subseteq clients
    /\ \A c \in Conns : \A k \in 1..Len(hubLog[c]) :
         hubLog[c][k].cmd = "Subscribe" =>
            /\ "NewClient" \in Before(c, k)
            /\ "ClientDisconnect" \notin Before(c, k)

\* C14 witness: one connection subscribed, disconnected and was unregistered
\* while another was live.
C14_Witness ==
    \E c, d \in Conns :
        /\ \E k \in 1..Len(hubLog[c]) : hubLog[c][k].cmd = "Subscribe"
        /\ hubLog[c][Len(hubLog[c])].cmd = "ClientDisconnect"
        /\ Unregistered(c)
        /\ d \in clients

\* C15: the OK reply to a Subscribe or Unsubscribe is written only after the
\* hub has applied the command: a connection whose last reply is
\* UnsubscribeOK for a channel is not among the channel's subscribers, and one
\* whose last reply is SubscribeOK for a channel, and which the hub has not
\* unregistered, is. (Of connections at rest whose replies all reached the
\* wire: the stream is open and no write raced.)
C15_ReplyAfterApplied ==
    \A c \in Conns :
        (AtRest(c) /\ ~Raced(c) /\ ~connClosed[c]) =>
            /\ LastReply(c).type = UnsubscribeOKMessage
                  => c \notin subs[LastReply(c).channel]
            /\ LastReply(c).type = SubscribeOKMessage
                  => c \in subs[LastReply(c).channel]

\* C16: writes to one socket are serialized: never have the hub's Send and a
\* write of the connection's own task run on one socket at the same time.
C16_WritesSerialized ==
    \A c \in Conns : transport[c] = "ws" => ~Raced(c)

\* C17: Send never blocks the hub: a fan-out that is running can always go on
\* with one of the subscribers it has still to serve.
C17_SendNeverBlocksHub ==
    hubPending # {} => \E c \in hubPending : ~WriteBlocks(c)

\* C18: after Server Stop no task is left sending on a channel of the hub,
\* and none has ended in a panic: a command issued for the stopped hub fails
\* with a shutdown indicator and the task closes its connection and ends.
C18_NoTaskStuckAfterStop ==
    hubStopped => \A c \in Conns : pc[c] \notin HubSendPoints \cup {"panicked"}

\* C19: over the run of a socket connection Close(code, msg) is called at most
\* once.
C19_CloseAtMostOnce ==
    \A c \in Conns : closeCalls[c] <= 1

\* The places of command name in the commands the hub took from c.
Taken(c, name) == {k \in 1..Len(hubLog[c]) : hubLog[c][k].cmd = name}

\* The hub's tables hold the same of c before and after this step.
TablesKeep(c) ==
    /\ (c \in clients') = (c \in clients)
    /\ \A ch \in Channels : (c \in subs'[ch]) = (c \in subs[ch])

\* C20: of a socket connection the hub takes NewClient at most once, first of
\* all its commands and only when its AuthMessage passed CanConnect; it takes
\* ClientDisconnect at most once, last of all its commands, and has taken it
\* exactly when the task that registered has ended; and the hub's tables
\* change for a connection only where the hub takes or applies a command.
C20_RegisterThenUnregister ==
    /\ [](\A c \in Conns : transport[c] = "ws" =>
            /\ Taken(c, "NewClient") \subseteq {1}
            /\ hubLog[c] # << >> =>
                 /\ Taken(c, "NewClient") = {1}
                 /\ cmdLog[c][1].type = AuthMessage
                 /\ canConnect = "nil" \/ CanConnect(authData[c])
            /\ Taken(c, "ClientDisconnect") \subseteq {Len(hubLog[c])}
            /\ (pc[c] = "closed") = (Taken(c, "ClientDisconnect") # {}))
    /\ [][\A c \in Conns :
            TablesKeep(c) \/ hubLog'[c] # hubLog[c] \/ hubCmd' # hubCmd]_vars

\* C20 witness: a socket connection registered, subscribed, met a read error
\* and was unregistered.
C20_Witness ==
    \E c \in Conns :
        /\ transport[c] = "ws" /\ pc[c] = "closed"
        /\ Len(hubLog[c]) >= 3
        /\ hubLog[c][1].cmd = "NewClient"
        /\ hubLog[c][Len(hubLog[c])].cmd = "ClientDisconnect"
        /\ Unregistered(c)

====
